---------------------------- MODULE Spec2Model ----------------------------
(***************************************************************************)
(* Model of the chunked summarizer (text_to_summary_cli.py) and of the     *)
(* session history of the interactive text processor (text_processor.py).  *)
(* A Python str is a sequence of one-character strings.                    *)
(***************************************************************************)
EXTENDS Integers, Sequences, FiniteSets, TLC

VARIABLES
    ct_pc, ct_text, ct_max, ct_chunks,   \* one call chunk_text(ct_text, ct_max)
    pc,             \* where the call summarize(article_text) stands
    article_text,   \* its argument
    chunks,         \* its locals (lines 58-82)
    partial,
    combined,
    final,
    result,         \* its return value
    calls,          \* the invocations of summarizer so far, oldest first
    kp_pc, kp_final, kp_lines,  \* one run of lines 85-86 on kp_final
    history,        \* st.session_state.history of the text processor
    clock,          \* the reruns of its script so far; stands for the time
    completed       \* the entries the reruns appended so far, oldest first

ct_vars == <<ct_pc, ct_text, ct_max, ct_chunks>>
sum_vars == <<pc, article_text, chunks, partial, combined, final, result, calls>>
kp_vars == <<kp_pc, kp_final, kp_lines>>
tp_vars == <<history, clock, completed>>
vars == <<ct_vars, sum_vars, kp_vars, tp_vars>>

---------------------------------------------------------------------------
(* Bounds of the model *)

MaxTextLen == 6      \* longest text handed to chunk_text
MaxMaxChars == 5     \* largest max_chars handed to chunk_text
MaxBlocks == 5       \* an article is at most this many blocks (see Articles)
MaxPieces == 6       \* a final summary is at most this many pieces (see Finals)
MaxReruns == 6       \* reruns of the text processor's script in a session

---------------------------------------------------------------------------
(* Constants of the program *)

MAX_CHARS == 1200    \* summarize's chunk size (line 58)
MAX_BULLETS == 5     \* sentences[:5] (line 86)
PREVIEW_LEN == 60    \* preview[:60] (text_processor.py line 160)
HISTORY_KEPT == 5    \* history[-5:] (text_processor.py line 163)

---------------------------------------------------------------------------
(* Python str primitives *)

NL == "\n"
Chars == {"a", "b", " ", NL}
Whitespace == {" ", NL}

StrUpTo(n) == UNION {[1..k -> Chars] : k \in 0..n}

IsSpace(c) == c \in Whitespace

\* str.strip(): drop the leading and the trailing run of whitespace
Strip(s) ==
    IF \A i \in 1..Len(s) : IsSpace(s[i]) THEN <<>>
    ELSE LET first == CHOOSE i \in 1..Len(s) :
                          ~IsSpace(s[i]) /\ \A j \in 1..(i-1) : IsSpace(s[j])
             last  == CHOOSE i \in 1..Len(s) :
                          ~IsSpace(s[i]) /\ \A j \in (i+1)..Len(s) : IsSpace(s[j])
         IN  SubSeq(s, first, last)

\* the k-th smallest element of a finite set of integers
KthOf(P, k) == CHOOSE p \in P : Cardinality({q \in P : q < p}) = k - 1

\* str.split(sep): the pieces between the occurrences of sep, empty ones kept
Split(s, sep) ==
    LET P == {i \in 1..Len(s) : s[i] = sep}
        n == Cardinality(P)
        from(k) == IF k = 1 THEN 1 ELSE KthOf(P, k - 1) + 1
        to(k)   == IF k = n + 1 THEN Len(s) ELSE KthOf(P, k) - 1
    IN  [k \in 1..(n + 1) |-> SubSeq(s, from(k), to(k))]

\* sep.join(parts)
RECURSIVE Join(_, _)
Join(parts, sep) ==
    IF parts = <<>> THEN <<>>
    ELSE IF Len(parts) = 1 THEN parts[1]
    ELSE parts[1] \o <<sep>> \o Join(Tail(parts), sep)

\* c * n
Rep(c, n) == [i \in 1..n |-> c]

\* the concatenation of a sequence of sequences
RECURSIVE Flatten(_)
Flatten(seqs) == IF seqs = <<>> THEN <<>> ELSE seqs[1] \o Flatten(Tail(seqs))

---------------------------------------------------------------------------
(* chunk_text *)

\* the loop's locals before the first paragraph (line 38)
LoopInit == [chunks |-> <<>>, curr |-> <<>>, curr_len |-> 0]

\* variant of Overflows that forgets the separator's one character
OverflowsNoSeparator(curr_len, p, max_chars) == curr_len + Len(p) > max_chars

\* the test that closes the current chunk (line 43)
Overflows(curr_len, p, max_chars) == curr_len + Len(p) + 1 > max_chars

\* one iteration of the loop over the paragraphs (lines 40-48)
LoopBody(st, para, max_chars) ==
    LET p == Strip(para)
    IN  IF p = <<>> THEN st
        ELSE IF Overflows(st.curr_len, p, max_chars)
        THEN [chunks   |-> Append(st.chunks, Join(st.curr, NL)),
              curr     |-> <<p>>,
              curr_len |-> Len(p)]
        ELSE [chunks   |-> st.chunks,
              curr     |-> Append(st.curr, p),
              curr_len |-> st.curr_len + Len(p) + 1]

\* the loop over paras[i..] (line 39)
RECURSIVE Loop(_, _, _, _)
Loop(paras, i, st, max_chars) ==
    IF i > Len(paras) THEN st
    ELSE Loop(paras, i + 1, LoopBody(st, paras[i], max_chars), max_chars)

\* variant of Flush that forgets the chunk still open when the loop ends
FlushNothing(st) == st.chunks

\* the chunk still open when the loop ends is emitted if it holds a paragraph
\* (lines 49-51)
Flush(st) ==
    IF st.curr # <<>> THEN Append(st.chunks, Join(st.curr, NL)) ELSE st.chunks

\* variant of Fits with < for <=
FitsStrictly(stripped, max_chars) == Len(stripped) < max_chars

\* the early return for a text that fits (lines 36-37)
Fits(stripped, max_chars) == Len(stripped) <= max_chars

chunk_text(text, max_chars) ==
    LET stripped == Strip(text)
    IN  IF Fits(stripped, max_chars) THEN <<stripped>>
        ELSE Flush(Loop(Split(stripped, NL), 1, LoopInit, max_chars))

---------------------------------------------------------------------------
(* summarize *)

NO_TEXT ==
  <<"N", "o", " ", "a", "r", "t", "i", "c", "l", "e", " ", "t", "e", "x",
      "t", " ", "r", "e", "c", "e", "i", "v", "e", "d", ".">>
SUMMARY_HEAD ==
  <<NL, "=", "=", "=", " ", "S", "U", "M", "M", "A", "R", "Y", " ", "=",
      "=", "=", NL>>
KEY_POINTS_HEAD ==
  <<NL, NL, "=", "=", "=", " ", "K", "E", "Y", " ", "P", "O", "I", "N",
      "T", "S", " ", "=", "=", "=", NL>>

\* variant of IsBlankArticle without the test of the stripped text
IsBlankOnlyEmpty(text) == text = <<>>

\* the guard of line 55
IsBlankArticle(text) == text = <<>> \/ Strip(text) = <<>>

\* final.replace("\n", " ")
ReplaceNL(s) == [i \in 1..Len(s) |-> IF s[i] = NL THEN " " ELSE s[i]]

\* the list comprehension of line 85
Sentences(fin) ==
    LET frags == Split(ReplaceNL(fin), ".")
        kept  == SelectSeq(frags, LAMBDA f : Strip(f) # <<>>)
    IN  [i \in 1..Len(kept) |-> Strip(kept[i])]

\* variant of Head5 that keeps every sentence
HeadAll(sentences) == sentences

\* sentences[:5]
Head5(sentences) ==
    SubSeq(sentences, 1, IF Len(sentences) < MAX_BULLETS THEN Len(sentences) ELSE MAX_BULLETS)

\* the list joined into bullets on line 86
BulletLines(sentences) ==
    LET top == Head5(sentences)
    IN  [i \in 1..Len(top) |-> <<"-", " ">> \o top[i] \o <<".">>]

\* the returned text (lines 85-88)
Report(fin) ==
    SUMMARY_HEAD \o fin \o KEY_POINTS_HEAD
        \o Join(BulletLines(Sentences(fin)), NL) \o <<NL>>

\* variant of NeedsMerge that runs the second pass on a single chunk too
NeedsMergeAlways(cs) == Len(cs) >= 1

\* the merge test of line 72
NeedsMerge(cs) == Len(cs) > 1

\* variant of NextChunk that walks the chunks from the last to the first
NextChunkFromEnd(cs, done) == cs[Len(cs) - Len(done)]

\* the chunk the loop of line 61 hands to summarizer next
NextChunk(cs, done) == cs[Len(done) + 1]

\* what the summarizer stub may return
Summaries == {<<"a", ".">>, <<"b", " ", "b">>}

Call(arg, out, raised) == [arg |-> arg, out |-> out, raised |-> raised]

\* lines 55-56
ReturnNoText ==
    /\ pc = "start"
    /\ IsBlankArticle(article_text)
    /\ result' = NO_TEXT
    /\ pc' = "done"
    /\ UNCHANGED <<article_text, chunks, partial, combined, final, calls>>

\* lines 58-60
StartChunks ==
    /\ pc = "start"
    /\ ~IsBlankArticle(article_text)
    /\ chunks' = chunk_text(article_text, MAX_CHARS)
    /\ partial' = <<>>
    /\ pc' = "loop"
    /\ UNCHANGED <<article_text, combined, final, result, calls>>

\* one iteration of the loop of lines 61-69, summarizer returning
SummarizeChunk ==
    /\ pc = "loop"
    /\ Len(partial) < Len(chunks)
    /\ \E out \in Summaries :
          /\ calls' = Append(calls, Call(NextChunk(chunks, partial), out, FALSE))
          /\ partial' = Append(partial, out)
    /\ UNCHANGED <<pc, article_text, chunks, combined, final, result>>

\* lines 71-80 and 84-88: the second pass, summarizer returning
MergePass ==
    /\ pc = "loop"
    /\ Len(partial) = Len(chunks)
    /\ NeedsMerge(chunks)
    /\ combined' = Join(partial, NL)
    /\ \E out \in Summaries :
          /\ calls' = Append(calls, Call(combined', out, FALSE))
          /\ final' = out
    /\ result' = Report(final')
    /\ pc' = "done"
    /\ UNCHANGED <<article_text, chunks, partial>>

\* lines 71-72, 81-82 and 84-88: no second pass
SkipMerge ==
    /\ pc = "loop"
    /\ Len(partial) = Len(chunks)
    /\ ~NeedsMerge(chunks)
    /\ combined' = Join(partial, NL)
    /\ final' = combined'
    /\ result' = Report(final')
    /\ pc' = "done"
    /\ UNCHANGED <<article_text, chunks, partial, calls>>

\* summarizer raises (lines 62 and 74): nothing catches it, summarize ends
SummarizerRaises ==
    /\ pc = "loop"
    /\ \/ /\ Len(partial) < Len(chunks)
          /\ calls' = Append(calls, Call(NextChunk(chunks, partial), <<>>, TRUE))
          /\ UNCHANGED combined
       \/ /\ Len(partial) = Len(chunks)
          /\ NeedsMerge(chunks)
          /\ combined' = Join(partial, NL)
          /\ calls' = Append(calls, Call(combined', <<>>, TRUE))
    /\ pc' = "raised"
    /\ UNCHANGED <<article_text, chunks, partial, final, result>>

---------------------------------------------------------------------------
(* text_processor.py: one action per rerun of the script *)

EM_DASH == "--"      \* stands for the one character U+2014
ELLIPSIS == "..."    \* stands for the one character U+2026

WORD_COUNT_LABEL ==
  <<"W", "o", "r", "d", " ", "c", "o", "u", "n", "t", ":", " ">>
CHAR_COUNT_LABEL ==
  <<"C", "h", "a", "r", "a", "c", "t", "e", "r", " ", "c", "o", "u", "n",
      "t", " ", EM_DASH, " ", "w", "i", "t", "h", " ", "s", "p", "a",
      "c", "e", "s", ":", " ">>
CHAR_COUNT_MID ==
  <<",", " ", "w", "i", "t", "h", "o", "u", "t", " ", "s", "p", "a", "c",
      "e", "s", ":", " ">>

Ops == {"Word Count", "Character Count", "Reverse Text", "Uppercase", "Title Case"}

\* str(n) for n >= 0
RECURSIVE Digits(_)
Digits(n) ==
    LET d == <<"0", "1", "2", "3", "4", "5", "6", "7", "8", "9">>[(n % 10) + 1]
    IN  IF n < 10 THEN <<d>> ELSE Append(Digits(n \div 10), d)

ToUpper(c) == CASE c = "a" -> "A" [] c = "c" -> "C" [] OTHER -> c
ToLower(c) == CASE c = "B" -> "b" [] OTHER -> c
IsLetter(c) == c \in {"a", "c", "A", "B", "C", "b"}

\* len(t.split()): the maximal runs of non-whitespace characters
WordsIn(t) ==
    Cardinality({i \in 1..Len(t) :
                    ~IsSpace(t[i]) /\ (i = 1 \/ IsSpace(t[i - 1]))})

\* lines 65-74
word_count(t) == WORD_COUNT_LABEL \o Digits(WordsIn(t))

\* lines 76-85
character_count(t) ==
    CHAR_COUNT_LABEL \o Digits(Len(t)) \o CHAR_COUNT_MID
        \o Digits(Len(SelectSeq(t, LAMBDA c : c # " ")))

\* lines 87-91
reverse_text(t) == [i \in 1..Len(t) |-> t[Len(t) + 1 - i]]

\* lines 93-97
to_upper(t) == [i \in 1..Len(t) |-> ToUpper(t[i])]

\* lines 99-103: a letter that follows a letter is lowered, any other raised
to_title(t) ==
    [i \in 1..Len(t) |->
        IF i > 1 /\ IsLetter(t[i - 1]) THEN ToLower(t[i]) ELSE ToUpper(t[i])]

\* lines 106-116
Process(op, t) ==
    CASE op = "Word Count" -> word_count(t)
      [] op = "Character Count" -> character_count(t)
      [] op = "Reverse Text" -> reverse_text(t)
      [] op = "Uppercase" -> to_upper(t)
      [] op = "Title Case" -> to_title(t)

\* line 160
Preview(processed) ==
    IF Len(processed) > PREVIEW_LEN
    THEN Append(SubSeq(processed, 1, PREVIEW_LEN), ELLIPSIS)
    ELSE processed

\* the two validation stops (lines 52-58)
Stops(t, min_len) == Strip(t) = <<>> \/ Len(t) < min_len

\* history[-5:] (line 163)
KeepLast(h) ==
    IF Len(h) > HISTORY_KEPT THEN SubSeq(h, Len(h) - HISTORY_KEPT + 1, Len(h)) ELSE h

\* what the user may have typed, and the minimum lengths they may have set
Texts == {<<>>, <<" ">>, <<"a", " ", "B">> \o Rep("c", PREVIEW_LEN)}
MinLens == {0, 200}

\* a rerun that st.stop() ends at the validation (lines 52-58)
RerunStopped ==
    /\ clock < MaxReruns
    /\ \E t \in Texts, min_len \in MinLens : Stops(t, min_len)
    /\ clock' = clock + 1
    /\ UNCHANGED <<history, completed>>

\* a rerun that runs to the end of the script (lines 19-172)
RerunCompleted ==
    /\ clock < MaxReruns
    /\ \E t \in Texts, min_len \in MinLens, op \in Ops :
          /\ ~Stops(t, min_len)
          /\ LET entry == [time |-> clock + 1, op |-> op,
                            preview |-> Preview(Process(op, t))]
             IN  /\ history' = KeepLast(Append(history, entry))
                 /\ completed' = Append(completed, entry)
    /\ clock' = clock + 1

---------------------------------------------------------------------------
(* Specification of summarize: one call, on an article read from stdin *)

\* An article is a run of blocks: half a chunk's worth of letters (two in
\* a row are a paragraph as long as a chunk may be), a line break, a space.
Blocks == {Rep("a", MAX_CHARS \div 2), <<NL>>, <<" ">>}
Articles ==
    {Flatten(bs) : bs \in UNION {[1..k -> Blocks] : k \in 0..MaxBlocks}}

ChunkIdle ==
    /\ ct_pc = "idle"
    /\ ct_text = <<>>
    /\ ct_max = 1
    /\ ct_chunks = <<>>

SumIdle ==
    /\ pc = "idle"
    /\ article_text = <<>>
    /\ chunks = <<>>
    /\ partial = <<>>
    /\ combined = <<>>
    /\ final = <<>>
    /\ result = <<>>
    /\ calls = <<>>

KpIdle ==
    /\ kp_pc = "idle"
    /\ kp_final = <<>>
    /\ kp_lines = <<>>

TpIdle ==
    /\ history = <<>>
    /\ clock = 0
    /\ completed = <<>>

Init ==
    /\ ChunkIdle
    /\ KpIdle
    /\ TpIdle
    /\ pc = "start"
    /\ article_text \in Articles
    /\ chunks = <<>>
    /\ partial = <<>>
    /\ combined = <<>>
    /\ final = <<>>
    /\ result = <<>>
    /\ calls = <<>>

Next ==
    \/ ReturnNoText /\ UNCHANGED <<ct_vars, kp_vars, tp_vars>>
    \/ StartChunks /\ UNCHANGED <<ct_vars, kp_vars, tp_vars>>
    \/ SummarizeChunk /\ UNCHANGED <<ct_vars, kp_vars, tp_vars>>
    \/ MergePass /\ UNCHANGED <<ct_vars, kp_vars, tp_vars>>
    \/ SkipMerge /\ UNCHANGED <<ct_vars, kp_vars, tp_vars>>
    \/ SummarizerRaises /\ UNCHANGED <<ct_vars, kp_vars, tp_vars>>

Spec == Init /\ [][Next]_vars

---------------------------------------------------------------------------
(* Specification of chunk_text as a pure function of its two arguments *)

ChunkInit ==
    /\ SumIdle
    /\ KpIdle
    /\ TpIdle
    /\ ct_pc = "call"
    /\ ct_text \in StrUpTo(MaxTextLen)
    /\ ct_max \in 1..MaxMaxChars
    /\ ct_chunks = <<>>

ChunkCall ==
    /\ ct_pc = "call"
    /\ ct_chunks' = chunk_text(ct_text, ct_max)
    /\ ct_pc' = "returned"
    /\ UNCHANGED <<ct_text, ct_max>>

ChunkNext == ChunkCall /\ UNCHANGED <<sum_vars, kp_vars, tp_vars>>

SpecChunk == ChunkInit /\ [][ChunkNext]_vars

---------------------------------------------------------------------------
(* Specification of the bullet extraction (lines 85-86) as a pure function  *)
(* of final                                                                 *)

\* A final summary is a run of pieces: a one-letter sentence, a letter, a
\* period, a space, a line break.
Pieces == {<<"a", ".">>, <<"b">>, <<".">>, <<" ">>, <<NL>>}
Finals ==
    {Flatten(ps) : ps \in UNION {[1..k -> Pieces] : k \in 0..MaxPieces}}

KpInit ==
    /\ ChunkIdle
    /\ SumIdle
    /\ TpIdle
    /\ kp_pc = "call"
    /\ kp_final \in Finals
    /\ kp_lines = <<>>

KpCall ==
    /\ kp_pc = "call"
    /\ kp_lines' = BulletLines(Sentences(kp_final))
    /\ kp_pc' = "returned"
    /\ UNCHANGED kp_final

KpNext == KpCall /\ UNCHANGED <<ct_vars, sum_vars, tp_vars>>

SpecKeyPoints == KpInit /\ [][KpNext]_vars

---------------------------------------------------------------------------
(* Specification of a session of the text processor: the script reruns on   *)
(* every change of a widget (line 19: the history starts empty)             *)

TpInit ==
    /\ ChunkIdle
    /\ SumIdle
    /\ KpIdle
    /\ history = <<>>
    /\ clock = 0
    /\ completed = <<>>

TpNext ==
    \/ RerunStopped /\ UNCHANGED <<ct_vars, sum_vars, kp_vars>>
    \/ RerunCompleted /\ UNCHANGED <<ct_vars, sum_vars, kp_vars>>

SpecHistory == TpInit /\ [][TpNext]_vars

---------------------------------------------------------------------------
(* Vocabulary of the claims about chunk_text *)

Returned == ct_pc = "returned"

NonBlank(s) == \E i \in 1..Len(s) : ~IsSpace(s[i])

\* t is s without a leading and a trailing run of whitespace
IsTrimOf(t, s) ==
    /\ \E i \in 0..Len(s) : \E j \in i..Len(s) :
          /\ t = SubSeq(s, i + 1, j)
          /\ \A k \in 1..i : IsSpace(s[k])
          /\ \A k \in (j + 1)..Len(s) : IsSpace(s[k])
    /\ t # <<>> => ~IsSpace(t[1]) /\ ~IsSpace(t[Len(t)])

\* the paragraphs of the chunks, in chunk order
ChunkParagraphs(cs) == Flatten([i \in 1..Len(cs) |-> Split(cs[i], NL)])

DropBlank(ps) == SelectSeq(ps, NonBlank)
Trimmed(ps) == [i \in 1..Len(ps) |-> Strip(ps[i])]

\* a chunk that is one paragraph, itself longer than max_chars
LoneLongParagraph(c, max_chars) ==
    /\ \A i \in 1..Len(c) : c[i] # NL
    /\ Len(Strip(c)) > max_chars

---------------------------------------------------------------------------
(* C1: every chunk has at most max_chars characters, unless it is exactly  *)
(* one paragraph whose own trimmed length exceeds max_chars.               *)
C1_ChunkBound ==
    Returned =>
        \A i \in 1..Len(ct_chunks) :
            \/ Len(ct_chunks[i]) <= ct_max
            \/ LoneLongParagraph(ct_chunks[i], ct_max)

\* an over-long paragraph alone in its chunk, after a chunk that holds a
\* paragraph and respects the bound
C1_Witness ==
    /\ Returned
    /\ \E i, j \in 1..Len(ct_chunks) :
          /\ i < j
          /\ ct_chunks[i] # <<>>
          /\ Len(ct_chunks[i]) <= ct_max
          /\ Len(ct_chunks[j]) > ct_max

(* C2 as stated: the paragraphs of the chunks, in chunk order, are the      *)
(* article's line-break-separated paragraphs with the blank ones removed    *)
(* (stated for the articles with a non-whitespace character whose chunks    *)
(* all hold a paragraph).                                                   *)
C2_AsStated ==
    (/\ Returned
     /\ NonBlank(ct_text)
     /\ \A i \in 1..Len(ct_chunks) : ct_chunks[i] # <<>>) =>
        ChunkParagraphs(ct_chunks) = DropBlank(Split(ct_text, NL))

(* C2 amended: after trimming every paragraph and removing the blank ones   *)
(* on both sides, the paragraphs of the chunks, in chunk order, are the     *)
(* article's paragraphs: each one whole, once, in the original order.       *)
C2_ParagraphsKept ==
    Returned =>
        Trimmed(DropBlank(ChunkParagraphs(ct_chunks)))
            = Trimmed(DropBlank(Split(ct_text, NL)))

\* paragraph a in a chunk before paragraph b, the article written with padding
C2_Witness ==
    /\ Returned
    /\ Len(ct_chunks) >= 2
    /\ \E i, j \in 1..Len(ct_chunks) : i < j /\ ct_chunks[i] = <<"a">> /\ ct_chunks[j] = <<"b">>
    /\ ChunkParagraphs(ct_chunks) # DropBlank(Split(ct_text, NL))

(* C5: a text of at most max_chars characters comes back as exactly one     *)
(* chunk, the text without its leading and trailing whitespace.             *)
C5_ShortTextOneChunk ==
    (Returned /\ Len(ct_text) <= ct_max) =>
        /\ Len(ct_chunks) = 1
        /\ IsTrimOf(ct_chunks[1], ct_text)

\* a fitting text with whitespace around it and a blank line inside
C5_Witness ==
    /\ Returned
    /\ Len(ct_text) = ct_max
    /\ IsSpace(ct_text[1])
    /\ \E k \in 1..(Len(ct_chunks[1]) - 1) :
          ct_chunks[1][k] = NL /\ ct_chunks[1][k + 1] = NL

(* C8: whenever a chunk is closed and the next one starts with paragraph p, *)
(* the closed chunk joined to p by one line break would have been longer    *)
(* than max_chars; this for the first chunk as for every later one.         *)
C8_Greedy ==
    (Returned /\ Len(Strip(ct_text)) > ct_max) =>
        \A i \in 1..(Len(ct_chunks) - 1) :
            Len(ct_chunks[i]) + 1 + Len(Split(ct_chunks[i + 1], NL)[1]) > ct_max

(* C10: an article with a non-whitespace character yields no empty chunk,   *)
(* and one made of a single over-long paragraph yields exactly one chunk.   *)
C10_NoEmptyChunk ==
    (Returned /\ NonBlank(ct_text)) =>
        /\ \A i \in 1..Len(ct_chunks) : ct_chunks[i] # <<>>
        /\ Len(Split(Strip(ct_text), NL)) = 1 => Len(ct_chunks) = 1

---------------------------------------------------------------------------
(* Vocabulary of the claims about summarize *)

\* the summaries the first n invocations returned, in invocation order
Outs(n) == [k \in 1..n |-> calls[k].out]

\* the number of chunks chunk_text cuts the article into
N == Len(chunk_text(article_text, MAX_CHARS))

(* C3: on an article with a non-whitespace character that chunk_text cuts   *)
(* into n chunks, a summarize that returns has invoked summarizer n + 1     *)
(* times if n > 1, the last time on the joined per-chunk summaries, and     *)
(* once if n = 1, final being that one summary.                             *)
C3_CallCount ==
    (pc = "done" /\ NonBlank(article_text)) =>
        LET n == N
        IN  /\ n >= 1
            /\ n > 1 => /\ Len(calls) = n + 1
                        /\ calls[n + 1].arg = Join(Outs(n), NL)
                        /\ final = calls[n + 1].out
            /\ n = 1 => /\ Len(calls) = 1
                        /\ final = calls[1].out

\* a three-chunk article summarized with four invocations
C3_Witness ==
    /\ pc = "done"
    /\ Len(chunks) = 3
    /\ \A i \in 1..3 : chunks[i] # <<>>
    /\ Len(calls) = 4

(* C4: on an empty or whitespace-only article summarize returns the         *)
(* "no content" message, has invoked summarizer zero times and has not run  *)
(* the chunker (chunk_text returns at least one chunk, so chunks is empty   *)
(* only if it was not called).                                              *)
C4_BlankArticle ==
    (pc # "start" /\ ~NonBlank(article_text)) =>
        /\ pc = "done"
        /\ result = NO_TEXT
        /\ calls = <<>>
        /\ chunks = <<>>

\* a whitespace-only article answered with the message
C4_Witness ==
    /\ pc = "done"
    /\ article_text # <<>>
    /\ ~NonBlank(article_text)
    /\ result = NO_TEXT

(* C7: summarizer is invoked on the chunks in chunk order, one at a time;   *)
(* the i-th of the summaries joined into combined is the one returned for   *)
(* the i-th chunk; the merge invocation comes after all of these returned.  *)
C7_ChunkOrder ==
    pc \in {"loop", "done", "raised"} =>
        /\ Len(calls) <= Len(chunks) + 1
        /\ \A k \in 1..Len(calls) :
              /\ k <= Len(chunks) => calls[k].arg = chunks[k]
              /\ k < Len(calls) => ~calls[k].raised
              /\ k = Len(chunks) + 1 => calls[k].arg = Join(Outs(Len(chunks)), NL)
        /\ \A i \in 1..Len(partial) : partial[i] = calls[i].out
        /\ pc = "done" => combined = Join(Outs(Len(chunks)), NL)

\* two different chunks, two different summaries, merged
C7_Witness ==
    /\ pc = "done"
    /\ Len(chunks) = 2
    /\ chunks[1] # chunks[2]
    /\ partial[1] # partial[2]
    /\ Len(calls) = 3

---------------------------------------------------------------------------
(* Vocabulary of the claim about the key points *)

\* the key points are the bullet lines without their "- " marker
KeyPoints == [i \in 1..Len(kp_lines) |-> SubSeq(kp_lines[i], 3, Len(kp_lines[i]))]

\* split on periods, trim each fragment, discard the empty ones, keep the
\* first five, append a period to each
Extracted(s) ==
    LET frags   == Split(s, ".")
        trimmed == [i \in 1..Len(frags) |-> Strip(frags[i])]
        kept    == SelectSeq(trimmed, LAMBDA f : f # <<>>)
        n       == IF Len(kept) > 5 THEN 5 ELSE Len(kept)
    IN  [i \in 1..n |-> Append(kept[i], ".")]

SpacesForBreaks(s) == [i \in 1..Len(s) |-> IF s[i] = NL THEN " " ELSE s[i]]

(* C6 as stated: the key points are final split on periods, each fragment   *)
(* trimmed, the empty ones discarded, the first five kept, a period         *)
(* appended to each.                                                        *)
C6_AsStated ==
    kp_pc = "returned" => KeyPoints = Extracted(kp_final)

(* C6 amended: the key points are obtained that way from final with every   *)
(* line break replaced by a space; there are at most 5, none is blank and   *)
(* each ends with a period.                                                 *)
C6_KeyPoints ==
    kp_pc = "returned" =>
        /\ KeyPoints = Extracted(SpacesForBreaks(kp_final))
        /\ Len(KeyPoints) <= 5
        /\ \A i \in 1..Len(KeyPoints) :
              /\ KeyPoints[i][Len(KeyPoints[i])] = "."
              /\ NonBlank(SubSeq(KeyPoints[i], 1, Len(KeyPoints[i]) - 1))

\* six sentences, padded, cut to five key points
C6_Witness ==
    /\ kp_pc = "returned"
    /\ Len(Sentences(kp_final)) > 5
    /\ Len(KeyPoints) = 5
    /\ \A i \in 1..5 : KeyPoints[i] = <<"a", ".">>

---------------------------------------------------------------------------
(* C9: the session history keeps only the last 3 operations: it never holds *)
(* more than 3 entries, and these are the most recently completed           *)
(* operations in the order they completed (reruns stopped at the validation *)
(* add none: completed grows only in RerunCompleted).                       *)
C9_LastThree ==
    /\ Len(history) <= 3
    /\ LET k == IF Len(completed) > 3 THEN 3 ELSE Len(completed)
       IN  history = SubSeq(completed, Len(completed) - k + 1, Len(completed))
    /\ \A i \in 1..(Len(history) - 1) : history[i].time < history[i + 1].time

===========================================================================
